---- MODULE Spec2Model ----
(***************************************************************************)
(* Model of paramhandler.py: get_nparrays, get_classes and parcheck.       *)
(*                                                                         *)
(* Python values are modelled by what the code can observe of them:        *)
(*   - a scaling factor is a Python object with a type, a numeric value    *)
(*     (kept in tenths, so that 0.5 and -0.1 are integers) and a NaN flag; *)
(*   - an array-like is a constructor ("list", "ndarray" or "None"), a     *)
(*     declared dtype (ndarray only), a shape, a raggedness flag and its   *)
(*     flat sequence of elements, each a Python type and a value;          *)
(*   - an exception is its kind, the check that raised it, the parameter   *)
(*     it names and the values its message reports.                        *)
(***************************************************************************)
EXTENDS Integers, Sequences, FiniteSets, TLC

VARIABLES
    legacy,     \* the NumPy build: TRUE when ragged sequences still become object arrays
    args,       \* args[t]: the caller's argument objects of thread t's current call
    pc,         \* pc[t]: the statement of parcheck thread t is about to execute
    frames,     \* frames[s]: the local variables of the call frame in slot s
    outcome,    \* outcome[t]: how thread t's current call ended (or "none")
    evaluated   \* evaluated[t]: the checks thread t's current call has evaluated, in order

vars == <<legacy, args, pc, frames, outcome, evaluated>>

(***************************************************************************)
(* Bounds of the explored inputs.                                          *)
(***************************************************************************)
MaxLen == 3
MaxCols == 3

Threads == {1, 2}
Labels == {0, 2}

(***************************************************************************)
(* Python objects.                                                         *)
(***************************************************************************)
Elem(t, v) == [t |-> t, v |-> v]

Factor(t, tenths) == [t |-> t, tenths |-> tenths, nan |-> FALSE]
NaN == [t |-> "float", tenths |-> 0, nan |-> TRUE]

None == [ctr |-> "None", dtype |-> "", shape |-> <<>>, ragged |-> FALSE, elems |-> <<>>]
PyList(elems) ==
    [ctr |-> "list", dtype |-> "", shape |-> <<Len(elems)>>, ragged |-> FALSE, elems |-> elems]
Nested(shape, elems) ==
    [ctr |-> "list", dtype |-> "", shape |-> shape, ragged |-> FALSE, elems |-> elems]
Ragged(outer, elems) ==
    [ctr |-> "list", dtype |-> "", shape |-> <<outer>>, ragged |-> TRUE, elems |-> elems]
NdArray(dtype, shape, elems) ==
    [ctr |-> "ndarray", dtype |-> dtype, shape |-> shape, ragged |-> FALSE, elems |-> elems]

Repeat(e, n) == [i \in 1..n |-> e]
Range(s) == {s[i] : i \in 1..Len(s)}

ndim(a) == Len(a.shape)

(***************************************************************************)
(* NumPy: dtype discovery, conversion, the type hierarchy, unique.         *)
(***************************************************************************)
\* The dtype np.asanyarray(obj) discovers for a sequence of Python scalars.
result_type(elems) ==
    LET ts == {elems[i].t : i \in 1..Len(elems)} IN
    IF ts = {} THEN "float64"
    ELSE IF "str" \in ts THEN "<U"
    ELSE IF "bigint" \in ts THEN "object"
    ELSE IF "complex" \in ts THEN "complex128"
    ELSE IF "float" \in ts THEN "float64"
    ELSE IF "int" \in ts THEN "int64"
    ELSE "bool"

\* The Python type of the items of an array of the given dtype.
item_type(dtype, t) ==
    CASE dtype = "float64" -> "float"
      [] dtype = "int64" -> "int"
      [] dtype = "bool" -> "bool"
      [] dtype = "<U" -> "str"
      [] dtype = "complex128" -> "complex"
      [] OTHER -> t

cast(elems, dtype) == [i \in 1..Len(elems) |-> Elem(item_type(dtype, elems[i].t), elems[i].v)]

\* The exception float64 conversion of one element raises ("" when it converts).
float_error(e) ==
    CASE e.t = "str" -> "ValueError"
      [] e.t = "complex" -> "TypeError"
      [] OTHER -> ""

Converted(arr) == [exc |-> "", arr |-> arr]
Failed(kind) == [exc |-> kind, arr |-> None]

\* np.asanyarray(obj, dtype=dtype); dtype "" is "no dtype given".
asanyarray(obj, dtype, leg) ==
    IF obj.ctr = "ndarray" /\ (dtype = "" \/ dtype = obj.dtype) THEN Converted(obj)
    ELSE IF obj.ctr = "None" THEN
        LET d == IF dtype = "" THEN "object" ELSE dtype IN
        Converted(NdArray(d, <<>>, cast(<<Elem("NoneType", 0)>>, d)))
    ELSE IF obj.ragged THEN
        IF dtype = "" /\ leg
        THEN Converted(NdArray("object", obj.shape, obj.elems))
        ELSE Failed("ValueError")
    ELSE IF dtype = "float64" THEN
        LET bad == {i \in 1..Len(obj.elems) : float_error(obj.elems[i]) # ""} IN
        IF bad # {}
        THEN Failed(float_error(obj.elems[CHOOSE i \in bad : \A j \in bad : i <= j]))
        ELSE Converted(NdArray("float64", obj.shape, cast(obj.elems, "float64")))
    ELSE
        LET d == IF obj.ctr = "ndarray" THEN obj.dtype ELSE result_type(obj.elems) IN
        Converted(NdArray(d, obj.shape, cast(obj.elems, d)))

\* np.issubdtype(dtype, np.number): the check with the wrong abstract type.
issubdtype_number(dtype) == dtype \in {"int64", "int32", "uint8", "float64", "complex128"}

\* np.issubdtype(dtype, np.integer)
issubdtype_integer(dtype) == dtype \in {"int64", "int32", "uint8"}

\* Insertion of x into a sorted sequence without duplicates.
RECURSIVE insert_unique(_, _)
insert_unique(s, x) ==
    IF s = <<>> THEN <<x>>
    ELSE IF x = Head(s) THEN s
    ELSE IF x < Head(s) THEN <<x>> \o s
    ELSE <<Head(s)>> \o insert_unique(Tail(s), x)

\* The labels as they come, duplicates kept.
unique_keep_all(values) == values

\* np.unique(values): the sorted distinct values.
RECURSIVE unique(_)
unique(values) ==
    IF values = <<>> THEN <<>>
    ELSE insert_unique(unique(Tail(values)), Head(values))

values_of(arr) == [i \in 1..Len(arr.elems) |-> arr.elems[i].v]

(***************************************************************************)
(* get_nparrays and get_classes.                                           *)
(***************************************************************************)
\* A handler that catches TypeError only: a ValueError propagates as it is.
reraised_type_only(exc) == exc

\* The handler "except (TypeError, ValueError) as e: raise TypeError(...)":
\* the kind of the exception that leaves get_nparrays when the conversion raised exc.
reraised(exc) == IF exc \in {"TypeError", "ValueError"} THEN "TypeError" ELSE exc

\* get_nparrays(Q, y): Q is converted first, then y; exc "" is a normal return.
get_nparrays(Q, y, leg) ==
    LET q == asanyarray(Q, "float64", leg) IN
    IF q.exc # "" THEN [exc |-> reraised(q.exc), cause |-> q.exc, Q_arr |-> None, y_arr |-> None]
    ELSE LET l == asanyarray(y, "", leg) IN
         IF l.exc # "" THEN [exc |-> reraised(l.exc), cause |-> l.exc, Q_arr |-> None, y_arr |-> None]
         ELSE [exc |-> "", cause |-> "", Q_arr |-> q.arr, y_arr |-> l.arr]

\* A resolver that always infers the classes from the labels.
get_classes_from_labels(y_arr, classes, leg) ==
    [unique_labels |-> unique(values_of(y_arr)), n_classes |-> Len(unique(values_of(y_arr)))]

\* get_classes(y, classes): (unique_labels, n_classes).
get_classes(y_arr, classes, leg) ==
    IF classes.ctr # "None" THEN
        LET unique_labels == asanyarray(classes, "", leg).arr IN
        [unique_labels |-> values_of(unique_labels), n_classes |-> unique_labels.shape[1]]
    ELSE
        LET unique_labels == unique(values_of(y_arr)) IN
        [unique_labels |-> unique_labels, n_classes |-> Len(unique_labels)]

(***************************************************************************)
(* parcheck: its conditions, its statements in order, its frame.           *)
(***************************************************************************)
\* isinstance(factor, (float, int, str))
isinstance_float_int_str(f) == f.t \in {"float", "int", "bool", "numpy.float64", "str"}

\* isinstance(factor, (float, int)): bool is a subclass of int, numpy.float64 of float.
isinstance_float_int(f) == f.t \in {"float", "int", "bool", "numpy.float64"}

\* 0.0 <= factor: the upper end forgotten.
at_least_zero(f) == ~f.nan /\ 0 <= f.tenths

\* 0.0 < factor < 1.0: the interval taken open.
in_open_interval(f) == ~f.nan /\ 0 < f.tenths /\ f.tenths < 10

\* not (factor < 0.0 or factor > 1.0): true of NaN.
not_outside_interval(f) == ~(~f.nan /\ f.tenths < 0) /\ ~(~f.nan /\ f.tenths > 10)

\* 0.0 <= factor <= 1.0 (every comparison with NaN is false).
in_unit_interval(f) == ~f.nan /\ 0 <= f.tenths /\ f.tenths <= 10

\* Each factor checked for its type and then its range, factor_h first.
next_check_by_factor(c) ==
    CASE c = "factor_h_type" -> "factor_h_range"
      [] c = "factor_h_range" -> "factor_k_type"
      [] c = "factor_k_type" -> "factor_k_range"
      [] c = "factor_k_range" -> "normalize"
      [] c = "normalize" -> "Q_ndim"
      [] c = "Q_ndim" -> "y_ndim"
      [] c = "y_ndim" -> "n_samples"
      [] c = "n_samples" -> "label_dtype"
      [] c = "label_dtype" -> "n_classes"
      [] c = "n_classes" -> "done"

\* The statement that follows check c when c does not raise.
next_check(c) ==
    CASE c = "factor_h_type" -> "factor_k_type"
      [] c = "factor_k_type" -> "factor_h_range"
      [] c = "factor_h_range" -> "factor_k_range"
      [] c = "factor_k_range" -> "normalize"
      [] c = "normalize" -> "Q_ndim"
      [] c = "Q_ndim" -> "y_ndim"
      [] c = "y_ndim" -> "n_samples"
      [] c = "n_samples" -> "label_dtype"
      [] c = "label_dtype" -> "n_classes"
      [] c = "n_classes" -> "done"

\* The locals kept in module-level variables: one frame for every call.
SharedFrame(t) == 1

\* The frame holding the locals of thread t's call: one frame per call.
Frame(t) == t

EmptyFrame ==
    [Q_arr |-> None, y_arr |-> None, n_samples |-> -1, n_features_q |-> -1, n_classes_y |-> -1]

NoOutcome == [kind |-> "none", check |-> "", param |-> "", type |-> "", info |-> <<>>]
Returned == [kind |-> "returned", check |-> "", param |-> "", type |-> "", info |-> <<>>]
Error(kind, check, param, type, info) ==
    [kind |-> kind, check |-> check, param |-> param, type |-> type, info |-> info]

NoArgs == [Q |-> None, y |-> None, factor_h |-> Factor("float", 0),
           factor_k |-> Factor("float", 0), classes |-> None]

\* A raise statement: the exception propagates to the caller of parcheck.
Raise(t, e) ==
    /\ outcome' = [outcome EXCEPT ![t] = e]
    /\ pc' = [pc EXCEPT ![t] = "done"]

\* The check at pc[t] did not raise: control moves to the next statement,
\* and falls off the end of the function (return None) after the last one.
Pass(t) ==
    /\ pc' = [pc EXCEPT ![t] = next_check(pc[t])]
    /\ outcome' = [outcome EXCEPT ![t] =
                      IF next_check(pc[t]) = "done" THEN Returned ELSE outcome[t]]

Evaluate(t) == evaluated' = [evaluated EXCEPT ![t] = Append(evaluated[t], pc[t])]

\* A caller invokes parcheck(Q, y, factor_h, factor_k, classes) with arguments a.
Call(t, a) ==
    /\ pc[t] = "idle"
    /\ args' = [args EXCEPT ![t] = a]
    /\ pc' = [pc EXCEPT ![t] = "factor_h_type"]
    /\ frames' = [frames EXCEPT ![Frame(t)] = EmptyFrame]
    /\ outcome' = [outcome EXCEPT ![t] = NoOutcome]
    /\ evaluated' = [evaluated EXCEPT ![t] = <<>>]
    /\ UNCHANGED legacy

\* The caller has seen the outcome: the frame is gone, the caller moves on.
Finish(t) ==
    /\ pc[t] = "done"
    /\ args' = [args EXCEPT ![t] = NoArgs]
    /\ pc' = [pc EXCEPT ![t] = "idle"]
    /\ frames' = [frames EXCEPT ![Frame(t)] = EmptyFrame]
    /\ outcome' = [outcome EXCEPT ![t] = NoOutcome]
    /\ evaluated' = [evaluated EXCEPT ![t] = <<>>]
    /\ UNCHANGED legacy

CheckFactorHType(t) ==
    /\ pc[t] = "factor_h_type"
    /\ Evaluate(t)
    /\ IF ~isinstance_float_int(args[t].factor_h)
       THEN Raise(t, Error("TypeError", "factor_h_type", "factor_h", args[t].factor_h.t, <<>>))
       ELSE Pass(t)
    /\ UNCHANGED <<legacy, args, frames>>

CheckFactorKType(t) ==
    /\ pc[t] = "factor_k_type"
    /\ Evaluate(t)
    /\ IF ~isinstance_float_int(args[t].factor_k)
       THEN Raise(t, Error("TypeError", "factor_k_type", "factor_k", args[t].factor_k.t, <<>>))
       ELSE Pass(t)
    /\ UNCHANGED <<legacy, args, frames>>

CheckFactorHRange(t) ==
    /\ pc[t] = "factor_h_range"
    /\ Evaluate(t)
    /\ IF ~in_unit_interval(args[t].factor_h)
       THEN Raise(t, Error("ValueError", "factor_h_range", "factor_h", "",
                           <<args[t].factor_h.tenths>>))
       ELSE Pass(t)
    /\ UNCHANGED <<legacy, args, frames>>

CheckFactorKRange(t) ==
    /\ pc[t] = "factor_k_range"
    /\ Evaluate(t)
    /\ IF ~in_unit_interval(args[t].factor_k)
       THEN Raise(t, Error("ValueError", "factor_k_range", "factor_k", "",
                           <<args[t].factor_k.tenths>>))
       ELSE Pass(t)
    /\ UNCHANGED <<legacy, args, frames>>

\* Q_arr, y_arr = get_nparrays(Q, y)
Normalize(t) ==
    /\ pc[t] = "normalize"
    /\ Evaluate(t)
    /\ LET r == get_nparrays(args[t].Q, args[t].y, legacy) IN
       IF r.exc # ""
       THEN /\ Raise(t, Error(r.exc, "normalize", "Q and y", r.cause, <<>>))
            /\ UNCHANGED frames
       ELSE /\ Pass(t)
            /\ frames' = [frames EXCEPT ![Frame(t)].Q_arr = r.Q_arr,
                                        ![Frame(t)].y_arr = r.y_arr]
    /\ UNCHANGED <<legacy, args>>

CheckQNdim(t) ==
    /\ pc[t] = "Q_ndim"
    /\ Evaluate(t)
    /\ LET Q_arr == frames[Frame(t)].Q_arr IN
       IF ndim(Q_arr) # 2
       THEN Raise(t, Error("ValueError", "Q_ndim", "Q", "", <<ndim(Q_arr)>>))
       ELSE Pass(t)
    /\ UNCHANGED <<legacy, args, frames>>

CheckYNdim(t) ==
    /\ pc[t] = "y_ndim"
    /\ Evaluate(t)
    /\ LET y_arr == frames[Frame(t)].y_arr IN
       IF ndim(y_arr) # 1
       THEN Raise(t, Error("ValueError", "y_ndim", "y", "", <<ndim(y_arr)>>))
       ELSE Pass(t)
    /\ UNCHANGED <<legacy, args, frames>>

\* n_samples = Q_arr.shape[0]; if n_samples != y_arr.shape[0]: raise
CheckSamples(t) ==
    /\ pc[t] = "n_samples"
    /\ Evaluate(t)
    /\ LET f == frames[Frame(t)]
           n_samples == f.Q_arr.shape[1]
       IN /\ frames' = [frames EXCEPT ![Frame(t)].n_samples = n_samples]
          /\ IF n_samples # f.y_arr.shape[1]
             THEN Raise(t, Error("ValueError", "n_samples", "Q and y", "",
                                 <<n_samples, f.y_arr.shape[1]>>))
             ELSE Pass(t)
    /\ UNCHANGED <<legacy, args>>

CheckLabelDtype(t) ==
    /\ pc[t] = "label_dtype"
    /\ Evaluate(t)
    /\ LET y_arr == frames[Frame(t)].y_arr IN
       IF ~issubdtype_integer(y_arr.dtype)
       THEN Raise(t, Error("TypeError", "label_dtype", "y", y_arr.dtype, <<>>))
       ELSE Pass(t)
    /\ UNCHANGED <<legacy, args, frames>>

\* n_features_q = Q_arr.shape[1]; _, n_classes_y = get_classes(y_arr, classes)
CheckClasses(t) ==
    /\ pc[t] = "n_classes"
    /\ Evaluate(t)
    /\ LET f == frames[Frame(t)]
           n_features_q == f.Q_arr.shape[2]
           n_classes_y == get_classes(f.y_arr, args[t].classes, legacy).n_classes
       IN /\ frames' = [frames EXCEPT ![Frame(t)].n_features_q = n_features_q,
                                      ![Frame(t)].n_classes_y = n_classes_y]
          /\ IF n_features_q # n_classes_y
             THEN Raise(t, Error("ValueError", "n_classes", "Q and classes", "",
                                 <<n_features_q, n_classes_y>>))
             ELSE Pass(t)
    /\ UNCHANGED <<legacy, args>>

\* One statement of thread t's call.
Step(t) ==
    \/ CheckFactorHType(t)
    \/ CheckFactorKType(t)
    \/ CheckFactorHRange(t)
    \/ CheckFactorKRange(t)
    \/ Normalize(t)
    \/ CheckQNdim(t)
    \/ CheckYNdim(t)
    \/ CheckSamples(t)
    \/ CheckLabelDtype(t)
    \/ CheckClasses(t)

(***************************************************************************)
(* The inputs the callers draw their arguments from.                       *)
(***************************************************************************)
Ints(vals) == [i \in 1..Len(vals) |-> Elem("int", vals[i])]
Floats(vals) == [i \in 1..Len(vals) |-> Elem("float", vals[i])]

\* An r x c matrix: an ndarray when it has no rows, a list of r lists of c ints otherwise.
Matrix(r, c) ==
    IF r = 0 THEN NdArray("float64", <<r, c>>, <<>>)
    ELSE Nested(<<r, c>>, Repeat(Elem("int", 1), r * c))

QMatrices == {Matrix(r, c) : r \in 0..MaxLen, c \in 0..MaxCols}

QOthers ==
    { PyList(Ints(<<1, 2, 3>>)),                               \* [1, 2, 3]
      Nested(<<>>, <<Elem("float", 1)>>),                      \* 1.0
      Nested(<<1, 1, 1>>, <<Elem("float", 1)>>),               \* [[[1.0]]]
      Nested(<<2, 1>>, <<Elem("float", 1), Elem("str", 0)>>),  \* [[1.0], ["a"]]
      Nested(<<1, 2>>, <<Elem("complex", 1), Elem("str", 0)>>),\* [[1j, "a"]]
      Ragged(2, Ints(<<1, 2, 3>>)) }                           \* [[1, 2], [3]]

QInputs == QMatrices \cup QOthers

LabelLists == UNION {[1..n -> Labels] : n \in 0..MaxLen}

YLists == {PyList(Ints(vals)) : vals \in LabelLists}

YOthers ==
    { NdArray("int64", <<0>>, <<>>),                           \* np.array([], dtype=int)
      NdArray("float64", <<0>>, <<>>),                         \* np.array([])
      PyList(Floats(<<0, 1>>)),                                \* [0.0, 1.0]
      PyList(<<Elem("int", 0), Elem("float", 1)>>),            \* [0, 1.0]
      PyList(<<Elem("bigint", 1), Elem("int", 0)>>),           \* [2**70, 0]
      PyList(<<Elem("bool", 1), Elem("bool", 0)>>),            \* [True, False]
      PyList(<<Elem("str", 0), Elem("str", 1)>>),              \* ["a", "b"]
      Nested(<<>>, Ints(<<1>>)),                               \* 1
      Nested(<<2, 1>>, Ints(<<0, 1>>)),                        \* [[0], [1]]
      Ragged(2, Ints(<<0, 1, 1>>)) }                           \* [[0, 1], [1]]

YInputs == YLists \cup YOthers

Prefix(n) == [i \in 1..n |-> i - 1]

ClassInputs ==
    {None} \cup {PyList(Ints(Prefix(n))) : n \in 0..MaxCols} \cup {PyList(Ints(<<1, 1>>))}

Arguments(Q, y, h, k, c) ==
    [Q |-> Q, y |-> y, factor_h |-> h, factor_k |-> k, classes |-> c]

\* The factors of the array-centred specification.
FewFactorsH == {Factor("float", 5), Factor("float", 15)}
FewFactorsK == {Factor("int", 10), Factor("str", 0)}

\* The factors of the factor-centred specification: -0.1, 0.0, 0.5, 1.0, 1.5, nan,
\* -1, 0, 1, 2, True, "0.5", None, numpy.float64(0.5), numpy.int64(1), numpy.int64(2).
AllFactors ==
    { Factor("float", -1), Factor("float", 0), Factor("float", 5), Factor("float", 10),
      Factor("float", 15), NaN,
      Factor("int", -10), Factor("int", 0), Factor("int", 10), Factor("int", 20),
      Factor("bool", 10), Factor("str", 5), Factor("NoneType", 0),
      Factor("numpy.float64", 5), Factor("numpy.int64", 10), Factor("numpy.int64", 20) }

Example(Q, y, classes) == [Q |-> Q, y |-> y, classes |-> classes]

Examples ==
    { Example(Nested(<<4, 3>>, Repeat(Elem("float", 1), 12)), PyList(Ints(<<0, 1, 2, 1>>)), None),
      Example(Nested(<<4, 3>>, Repeat(Elem("float", 1), 12)), PyList(Ints(<<0, 1, 2, 1>>)),
              PyList(Ints(<<0, 1, 2, 3>>))),
      Example(Nested(<<5, 3>>, Repeat(Elem("float", 1), 15)), PyList(Ints(<<0, 1, 2, 1>>)), None),
      Example(PyList(Ints(<<1, 2, 3>>)), PyList(Ints(<<0, 1, 2>>)), None),
      Example(Matrix(2, 2), PyList(Floats(<<0, 1>>)), None),
      Example(Matrix(2, 2), PyList(Ints(<<1, 0>>)), None),
      Example(Matrix(0, 0), NdArray("int64", <<0>>, <<>>), None),
      Example(Ragged(2, Ints(<<1, 2, 3>>)), Nested(<<2, 1>>, Ints(<<0, 1>>)), None),
      Example(Matrix(1, 2), PyList(<<Elem("str", 0), Elem("str", 1)>>), PyList(Ints(<<0>>))) }

\* The arguments of the calls that run concurrently.
ThreadFactors == {Factor("float", 5), Factor("int", 2)}

(***************************************************************************)
(* Specifications.                                                         *)
(***************************************************************************)
Init ==
    /\ legacy \in BOOLEAN
    /\ args = [t \in Threads |-> NoArgs]
    /\ pc = [t \in Threads |-> "idle"]
    /\ frames = [s \in Threads |-> EmptyFrame]
    /\ outcome = [t \in Threads |-> NoOutcome]
    /\ evaluated = [t \in Threads |-> <<>>]

\* A caller draws its arrays from the whole range and its factors from a few.
CallArrays(t) ==
    /\ pc[t] = "idle"
    /\ \E Q \in QInputs, y \in YInputs, h \in FewFactorsH, k \in FewFactorsK, c \in ClassInputs :
          Call(t, Arguments(Q, y, h, k, c))

\* A caller draws its factors from the whole range and its arrays from the examples.
CallFactors(t) ==
    /\ pc[t] = "idle"
    /\ \E e \in Examples, h \in AllFactors, k \in AllFactors :
          Call(t, Arguments(e.Q, e.y, h, k, e.classes))

\* One caller, one call at a time.
Next ==
    \/ CallArrays(1)
    \/ CallFactors(1)
    \/ Step(1)
    \/ Finish(1)

Spec == Init /\ [][Next]_vars

\* Two threads calling parcheck concurrently, statement by statement.
NextThreads ==
    \E t \in Threads :
        \/ /\ pc[t] = "idle"
           /\ \E e \in Examples, h \in ThreadFactors :
                 Call(t, Arguments(e.Q, e.y, h, Factor("int", 0), e.classes))
        \/ Step(t)
        \/ Finish(t)

SpecThreads == Init /\ [][NextThreads]_vars

(***************************************************************************)
(* Vocabulary of the properties, stated on the caller's arguments.         *)
(***************************************************************************)
Done(t) == pc[t] = "done"
Reached(t, c) == c \in Range(evaluated[t])

AllChecks ==
    <<"factor_h_type", "factor_k_type", "factor_h_range", "factor_k_range", "normalize",
      "Q_ndim", "y_ndim", "n_samples", "label_dtype", "n_classes">>

IsPrefix(s, r) == Len(s) <= Len(r) /\ \A i \in 1..Len(s) : s[i] = r[i]

RealTypes == {"float", "int", "bool", "numpy.float64"}
NonNumericTypes == {"str", "NoneType"}
IntegerDTypes == {"int64", "int32", "uint8"}

\* The factor is a number outside the closed interval [0, 1] (NaN is in no interval).
Outside(f) == f.t \notin NonNumericTypes /\ (f.nan \/ f.tenths < 0 \/ f.tenths > 10)
Inside(f) == f.t \notin NonNumericTypes /\ ~f.nan /\ 0 <= f.tenths /\ f.tenths <= 10

ValidFactors(a) ==
    /\ a.factor_h.t \in RealTypes /\ Inside(a.factor_h)
    /\ a.factor_k.t \in RealTypes /\ Inside(a.factor_k)

\* The array-like holds non-numeric data or is ragged.
NonNumericOrRagged(obj) == obj.ragged \/ \E i \in 1..Len(obj.elems) : obj.elems[i].t = "str"

\* The array-like has no float64 form.
NoFloatForm(obj) ==
    obj.ragged \/ \E i \in 1..Len(obj.elems) : obj.elems[i].t \in {"str", "complex"}

DistinctValues(obj) == {obj.elems[i].v : i \in 1..Len(obj.elems)}

\* The group (1..7) of the validation gateway a statement of parcheck belongs to.
Group(c) ==
    CASE c \in {"factor_h_type", "factor_k_type"} -> 1
      [] c \in {"factor_h_range", "factor_k_range"} -> 2
      [] c = "normalize" -> 3
      [] c \in {"Q_ndim", "y_ndim"} -> 4
      [] c = "n_samples" -> 5
      [] c = "label_dtype" -> 6
      [] c = "n_classes" -> 7
      [] OTHER -> 0

GroupKind(g) == IF g \in {1, 3, 6} THEN "TypeError" ELSE "ValueError"

\* The arguments violate check g, as far as check g is defined for them.
Violates(g, a, leg) ==
    LET n == get_nparrays(a.Q, a.y, leg) IN
    CASE g = 1 -> a.factor_h.t \notin RealTypes \/ a.factor_k.t \notin RealTypes
      [] g = 2 -> Outside(a.factor_h) \/ Outside(a.factor_k)
      [] g = 3 -> n.exc # ""
      [] g = 4 -> n.exc = "" /\ (ndim(n.Q_arr) # 2 \/ ndim(n.y_arr) # 1)
      [] g = 5 -> /\ n.exc = "" /\ ndim(n.Q_arr) >= 1 /\ ndim(n.y_arr) >= 1
                  /\ n.Q_arr.shape[1] # n.y_arr.shape[1]
      [] g = 6 -> n.exc = "" /\ n.y_arr.dtype \notin IntegerDTypes
      [] g = 7 -> /\ n.exc = "" /\ ndim(n.Q_arr) >= 2
                  /\ n.Q_arr.shape[2] #
                        (IF a.classes.ctr = "None" THEN Cardinality(DistinctValues(n.y_arr))
                         ELSE Len(a.classes.elems))

Violated(a, leg) == {g \in 1..7 : Violates(g, a, leg)}
Earliest(S) == CHOOSE g \in S : \A h \in S : g <= h

\* The parameters an error of group g may name for these arguments.
Offenders(g, a, leg) ==
    LET n == get_nparrays(a.Q, a.y, leg) IN
    CASE g = 1 -> {p \in {"factor_h", "factor_k"} :
                      (IF p = "factor_h" THEN a.factor_h ELSE a.factor_k).t \notin RealTypes}
      [] g = 2 -> {p \in {"factor_h", "factor_k"} :
                      Outside(IF p = "factor_h" THEN a.factor_h ELSE a.factor_k)}
      [] g = 4 -> IF ndim(n.Q_arr) # 2 THEN {"Q"} ELSE {"y"}
      [] g = 7 -> {"Q and classes"}
      [] OTHER -> {"Q and y", "y"}

\* The outcome of the call parcheck(a) executed alone: the kind of its end and the
\* group of the check that ended it (0 for a normal return).
Alone(a, leg) ==
    IF Violated(a, leg) = {} THEN <<"returned", 0>>
    ELSE <<GroupKind(Earliest(Violated(a, leg))), Earliest(Violated(a, leg))>>

(***************************************************************************)
(* Properties.                                                             *)
(***************************************************************************)

\* C1 (soundness of parcheck): a call that returns without raising has both factors
\* numerically in [0, 1], a 2-axis normalized Q and a 1-axis normalized y of the
\* arguments' shapes, as many rows in Q as labels in y, an integral element type of
\* y, as many columns in Q as classes resolved from y and classes, and has
\* evaluated every check.
C1_Soundness ==
    \A t \in Threads :
        outcome[t].kind = "returned" =>
            LET a == args[t]
                f == frames[t]
            IN /\ Inside(a.factor_h) /\ Inside(a.factor_k)
               /\ Len(f.Q_arr.shape) = 2 /\ Len(f.y_arr.shape) = 1
               /\ f.Q_arr.shape = a.Q.shape /\ f.y_arr.shape = a.y.shape
               /\ f.Q_arr.shape[1] = f.y_arr.shape[1]
               /\ f.y_arr.dtype \in IntegerDTypes
               /\ f.Q_arr.shape[2] =
                     (IF a.classes.ctr = "None" THEN Cardinality(DistinctValues(f.y_arr))
                      ELSE Len(a.classes.elems))
               /\ evaluated[t] = AllChecks

C1_Witness ==
    \E t \in Threads :
        /\ outcome[t].kind = "returned"
        /\ args[t].classes.ctr = "list"
        /\ args[t].Q.shape = <<2, 2>>

\* An integral y: an integer ndarray, or a non-empty list of Python ints of 64 bits.
IntegralLabels(y) ==
    \/ y.ctr = "ndarray" /\ y.dtype \in IntegerDTypes
    \/ y.ctr = "list" /\ y.elems # <<>> /\ \A i \in 1..Len(y.elems) : y.elems[i].t = "int"

NumericMatrix(Q) ==
    /\ ~Q.ragged /\ Len(Q.shape) = 2
    /\ \A i \in 1..Len(Q.elems) : Q.elems[i].t \in {"int", "float", "bool"}

WellFormed(a) ==
    /\ ValidFactors(a)
    /\ NumericMatrix(a.Q)
    /\ ~a.y.ragged /\ Len(a.y.shape) = 1 /\ a.y.shape[1] = a.Q.shape[1]
    /\ IntegralLabels(a.y)
    /\ a.Q.shape[2] = Cardinality(DistinctValues(a.y))
    /\ a.classes.ctr = "None"

\* C2 (completeness of parcheck): a call with both factors in [0, 1] (int or float,
\* endpoints included), Q of shape (M, N), an integral y of shape (M,), N the number
\* of unique labels of y and no explicit classes returns without raising.
C2_Completeness ==
    \A t \in Threads : Done(t) /\ WellFormed(args[t]) => outcome[t].kind = "returned"

C2_Witness ==
    \E t \in Threads :
        /\ Done(t) /\ WellFormed(args[t])
        /\ args[t].Q.shape = <<4, 3>>
        /\ values_of(args[t].y) = <<0, 1, 2, 1>>
        /\ args[t].factor_h = Factor("int", 0)
        /\ args[t].factor_k = Factor("float", 10)

\* C3 (first-failure ordering): the checks are evaluated in the order factor types,
\* factor ranges, normalization, Q's then y's dimensionality, rows against labels,
\* label element type, columns against classes; a call ends with the error (kind and
\* offending parameter) of the earliest check its arguments violate, evaluates no
\* check after it, and returns when they violate none.
C3_FirstFailure ==
    \A t \in Threads :
        /\ IsPrefix(evaluated[t], AllChecks)
        /\ Done(t) =>
              LET V == Violated(args[t], legacy) IN
              IF V = {} THEN outcome[t].kind = "returned" /\ evaluated[t] = AllChecks
              ELSE /\ outcome[t].kind = GroupKind(Earliest(V))
                   /\ Group(outcome[t].check) = Earliest(V)
                   /\ outcome[t].param \in Offenders(Earliest(V), args[t], legacy)
                   /\ evaluated[t] # <<>>
                   /\ evaluated[t][Len(evaluated[t])] = outcome[t].check

C3_Witness ==
    \E t \in Threads :
        /\ Done(t)
        /\ {1, 2, 3} \subseteq Violated(args[t], legacy)
        /\ outcome[t].param = "factor_k"

\* C4 as stated: a factor outside [0, 1] makes the call raise ValueError, whatever the
\* other arguments.
C4_AnyOutsideRaisesValueError ==
    \A t \in Threads :
        Done(t) /\ (Outside(args[t].factor_h) \/ Outside(args[t].factor_k))
            => outcome[t].kind = "ValueError"

\* C4 (amended): when both factors are instances of float or int and one of them is
\* outside [0, 1], the call raises the ValueError of the range check, naming the
\* first factor outside the interval and its value, whatever Q, y and classes are.
C4_RangeError ==
    \A t \in Threads :
        LET a == args[t] IN
        /\ Done(t)
        /\ a.factor_h.t \in RealTypes /\ a.factor_k.t \in RealTypes
        /\ (Outside(a.factor_h) \/ Outside(a.factor_k))
        => /\ outcome[t].kind = "ValueError"
           /\ Group(outcome[t].check) = 2
           /\ outcome[t].param = (IF Outside(a.factor_h) THEN "factor_h" ELSE "factor_k")
           /\ outcome[t].info =
                 <<(IF Outside(a.factor_h) THEN a.factor_h ELSE a.factor_k).tenths>>
           /\ frames[t] = EmptyFrame

C4_Witness ==
    \E t \in Threads :
        /\ Done(t)
        /\ args[t].factor_h = Factor("float", 5)
        /\ args[t].factor_k = Factor("float", -1)
        /\ args[t].Q.ragged
        /\ outcome[t].kind = "ValueError"

\* C5: a factor of a non-numeric type makes the call raise the TypeError of the type
\* check, naming a factor that is not a float or an int, before any range check and
\* before Q and y are converted, whatever the other arguments.
C5_NonNumericFactor ==
    \A t \in Threads :
        LET a == args[t] IN
        Done(t) /\ (a.factor_h.t \in NonNumericTypes \/ a.factor_k.t \in NonNumericTypes)
        => /\ outcome[t].kind = "TypeError"
           /\ Group(outcome[t].check) = 1
           /\ outcome[t].param =
                 (IF a.factor_h.t \notin RealTypes THEN "factor_h" ELSE "factor_k")
           /\ ~Reached(t, "factor_h_range") /\ ~Reached(t, "normalize")

C5_Witness ==
    \E t \in Threads :
        /\ Done(t)
        /\ Outside(args[t].factor_h) /\ args[t].factor_h.t = "float"
        /\ args[t].factor_k.t = "str"
        /\ NoFloatForm(args[t].Q)
        /\ outcome[t].kind = "TypeError"

\* C6: with explicit classes the class count is the length of classes, whatever y
\* holds; a call that passes checks 1-6 returns iff Q has that many columns and
\* raises the ValueError of the class check otherwise.
C6_ExplicitClasses ==
    \A t \in Threads :
        LET a == args[t] IN
        Done(t) /\ Reached(t, "n_classes") /\ a.classes.ctr # "None"
        => /\ frames[t].n_classes_y = Len(a.classes.elems)
           /\ (outcome[t].kind = "returned") = (a.Q.shape[2] = Len(a.classes.elems))
           /\ outcome[t].kind \in {"returned", "ValueError"}
           /\ outcome[t].kind = "ValueError" => outcome[t].check = "n_classes"

C6_Witness ==
    \E t \in Threads :
        LET a == args[t] IN
        /\ Done(t) /\ Reached(t, "n_classes") /\ a.classes.ctr # "None"
        /\ outcome[t].kind = "returned"
        /\ DistinctValues(a.y) \ DistinctValues(a.classes) # {}
        /\ DistinctValues(a.classes) \ DistinctValues(a.y) # {}

\* C7: without explicit classes the class count is the number of distinct values of
\* y; a call that passes checks 1-6 raises the ValueError of the class check,
\* reporting Q's column count and the class count, exactly when the two differ, and
\* returns when they are equal.
C7_InferredClasses ==
    \A t \in Threads :
        LET a == args[t]
            n == Cardinality(DistinctValues(a.y))
        IN Done(t) /\ Reached(t, "n_classes") /\ a.classes.ctr = "None"
           => /\ frames[t].n_classes_y = n
              /\ IF a.Q.shape[2] = n THEN outcome[t].kind = "returned"
                 ELSE /\ outcome[t].kind = "ValueError"
                      /\ outcome[t].check = "n_classes"
                      /\ outcome[t].info = <<a.Q.shape[2], n>>

C7_Witness ==
    \E t \in Threads :
        LET a == args[t] IN
        /\ Done(t) /\ Reached(t, "n_classes") /\ a.classes.ctr = "None"
        /\ Len(a.y.elems) = 3
        /\ a.y.elems[1].v > a.y.elems[2].v
        /\ a.y.elems[1].v = a.y.elems[3].v
        /\ outcome[t].kind = "returned"

\* Every element of the array-like is a Python integer (trivially so when it has none).
AllElementsIntegral(y) == \A i \in 1..Len(y.elems) : y.elems[i].t \in {"int", "bigint"}

\* C8 as stated: a call that passes checks 1-5 raises the TypeError of the label
\* check iff not every element of y is integral.
C8_ElementwiseLabelCheck ==
    \A t \in Threads :
        Done(t) /\ Reached(t, "label_dtype")
        => (outcome[t].kind = "TypeError" /\ outcome[t].check = "label_dtype")
              = ~AllElementsIntegral(args[t].y)

\* The dtype y has as an array: its own when it is an ndarray, the discovered one
\* when it is a list (float64 for an empty list, object for ints beyond 64 bits).
LabelDType(y) ==
    IF y.ctr = "ndarray" THEN y.dtype
    ELSE IF y.ragged THEN "object"
    ELSE IF y.elems = <<>> THEN "float64"
    ELSE IF \E i \in 1..Len(y.elems) : y.elems[i].t = "str" THEN "<U"
    ELSE IF \E i \in 1..Len(y.elems) : y.elems[i].t = "bigint" THEN "object"
    ELSE IF \E i \in 1..Len(y.elems) : y.elems[i].t = "float" THEN "float64"
    ELSE IF \E i \in 1..Len(y.elems) : y.elems[i].t = "int" THEN "int64"
    ELSE "bool"

\* C8 (amended): a call that passes checks 1-5 raises the TypeError of the label
\* check, reporting the dtype, iff the dtype of y as an array is not an integer
\* dtype, whatever classes and Q's column count are; floating-point labels are
\* rejected, an integer array is not, even with no elements.
C8_LabelDType ==
    \A t \in Threads :
        Done(t) /\ Reached(t, "label_dtype")
        => /\ (outcome[t].kind = "TypeError" /\ outcome[t].check = "label_dtype")
                 = (LabelDType(args[t].y) \notin IntegerDTypes)
           /\ outcome[t].check = "label_dtype" => outcome[t].type = LabelDType(args[t].y)
           /\ outcome[t].kind = "TypeError" => outcome[t].check = "label_dtype"

C8_Witness ==
    \E t \in Threads :
        LET a == args[t] IN
        /\ Done(t) /\ Reached(t, "label_dtype")
        /\ a.y.elems = Floats(<<0, 1>>)
        /\ a.classes.ctr # "None"
        /\ a.Q.shape[2] # Len(a.classes.elems)
        /\ outcome[t].kind = "TypeError"

\* C9 as stated: with valid factors, a Q or a y that holds non-numeric data or is
\* ragged makes the call raise the TypeError of the normalization.
C9_AnyNonNumericRaisesTypeError ==
    \A t \in Threads :
        LET a == args[t] IN
        Done(t) /\ ValidFactors(a) /\ (NonNumericOrRagged(a.Q) \/ NonNumericOrRagged(a.y))
        => outcome[t].kind = "TypeError" /\ outcome[t].check = "normalize"

\* The conversion of get_nparrays fails: Q has no float64 form, or y is ragged and
\* the array library rejects ragged sequences.
ConversionFails(a, leg) == NoFloatForm(a.Q) \/ (a.y.ragged /\ ~leg)

\* C9 (amended): get_nparrays raises TypeError, never ValueError, exactly when the
\* conversion of Q to float64 or of y to an array fails, also when the conversion
\* failed with a ValueError; y holding non-numeric data converts. With valid
\* factors parcheck then ends with that TypeError, no dimensionality, shape,
\* label-type or class-count check evaluated.
C9_ConversionError ==
    \A t \in Threads :
        LET a == args[t]
            n == get_nparrays(a.Q, a.y, legacy)
        IN pc[t] # "idle" =>
            /\ n.exc = (IF ConversionFails(a, legacy) THEN "TypeError" ELSE "")
            /\ Done(t) /\ ValidFactors(a) /\ ConversionFails(a, legacy)
               => /\ outcome[t].kind = "TypeError"
                  /\ outcome[t].check = "normalize"
                  /\ evaluated[t][Len(evaluated[t])] = "normalize"
                  /\ frames[t] = EmptyFrame

C9_Witness ==
    \E t \in Threads :
        LET a == args[t] IN
        /\ Done(t) /\ ValidFactors(a)
        /\ a.Q.shape = <<2, 1>> /\ a.Q.elems[2].t = "str"
        /\ a.y.elems = <<Elem("str", 0), Elem("str", 1)>>
        /\ outcome[t].kind = "TypeError" /\ outcome[t].type = "ValueError"

\* C10: in every interleaving of the statements of concurrent calls, a call leaves
\* its arguments as it got them and ends as it would have ended alone.
C10_Reentrant ==
    [][\A t \in Threads :
          /\ pc[t] # "idle" /\ pc'[t] # "idle" => args'[t] = args[t]
          /\ pc'[t] = "done" =>
                <<outcome'[t].kind, Group(outcome'[t].check)>> = Alone(args'[t], legacy')
      ]_vars

C10_Witness ==
    /\ Done(1) /\ outcome[1].kind = "returned"
    /\ pc[2] = "n_samples"
    /\ args[2].Q # args[1].Q /\ args[2].y = args[1].y

====
